---- MODULE Spec2Model ----
(***************************************************************************)
(* A model of the Nertz score keeper (src/src/main.rs): the State struct,  *)
(* its pure queries (player_sum, is_game_over, get_leader_board), the      *)
(* cursor search (get_next_empty) and the message handler App::update.     *)
(*                                                                         *)
(* Conventions.  Vec indices in messages and in the leaderboard are the    *)
(* code's 0-based indices; TLA+ sequences are 1-based, so cell (r, p) of   *)
(* the code is state.scores[r + 1][p + 1].  Option<i8> is a sequence of    *)
(* length at most one: None is << >>, Some(v) is << v >>.  A Rust panic    *)
(* aborts the handler where it happens: the fields written before it stay  *)
(* written, nothing after it runs, and the component accepts no further    *)
(* message (panicked = TRUE).                                              *)
(***************************************************************************)
EXTENDS Integers, Sequences, FiniteSets, TLC

VARIABLES
    state,            \* App.state: State
    leaderboard,      \* App.leaderboard: Vec<usize>
    storage,          \* LocalStorage[KEY]: << >> when absent, << JSON >> when set
    panicked,         \* a handler panicked (the wasm instance trapped)
    view,             \* what App::view computed at the last render
    msg,              \* the message update processed last
    overflow_checks   \* build profile: TRUE = arithmetic overflow panics (debug),
                      \*                FALSE = it wraps (release)

vars == <<state, leaderboard, storage, view, panicked, msg, overflow_checks>>

---------------------------------------------------------------------------
(* Bounds of the model *)

MaxPlayers == 2
MaxRounds == 2
MaxNameLen == 2

\* Player names the model adds: the empty string and one non-empty name,
\* as sequences of characters.
Names == { <<>>, <<"A", "l">> }

\* Scores the model enters (i8 values, main.rs:391 parses an i8).
Vals == { -128, 5, 100 }

---------------------------------------------------------------------------
(* Integer widths *)

\* Two's-complement wrap of an integer into i8 (what `as i8` and a
\* wrapping add produce).
Wrap8(n) == ((n + 128) % 256) - 128

InI8(n) == n >= -128 /\ n <= 127

None == <<>>
Some(v) == <<v>>

Max(S) == CHOOSE x \in S : \A y \in S : y <= x
Min(S) == CHOOSE x \in S : \A y \in S : x <= y

---------------------------------------------------------------------------
(* State *)

State_new ==
    [ players        |-> <<>>,
      scores         |-> <<>>,
      is_in_progress |-> FALSE,
      first_to       |-> 100,
      negative_size  |-> 13,
      deck_size      |-> 52 ]

\* The result of a fallible step: the state it leaves and whether it panicked.
Ok(st) == [st |-> st, panic |-> FALSE]
Panic(st) == [st |-> st, panic |-> TRUE]

---------------------------------------------------------------------------
(* Serialization (serde_json through gloo's LocalStorage) *)

\* A JSON value of a cell's val: null for None, a number for Some(v).
JsonNull == <<"null">>
JsonNumber(v) == <<"number", v>>

\* Mutant of to_json: is_editing is skipped, every cell is written with the
\* flag's default.
to_json_skip_editing(st) ==
    [ players        |-> st.players,
      scores         |-> [r \in 1..Len(st.scores) |->
                            [p \in 1..Len(st.scores[r]) |->
                               [ val |-> IF st.scores[r][p].val = None
                                         THEN JsonNull
                                         ELSE JsonNumber(st.scores[r][p].val[1]),
                                 is_editing |-> FALSE ]]],
      is_in_progress |-> st.is_in_progress,
      first_to       |-> st.first_to,
      negative_size  |-> st.negative_size,
      deck_size      |-> st.deck_size ]

\* Serialize for State and Score: one JSON object per struct, field by field.
to_json(st) ==
    [ players        |-> st.players,
      scores         |-> [r \in 1..Len(st.scores) |->
                            [p \in 1..Len(st.scores[r]) |->
                               [ val |-> IF st.scores[r][p].val = None
                                         THEN JsonNull
                                         ELSE JsonNumber(st.scores[r][p].val[1]),
                                 is_editing |-> st.scores[r][p].is_editing ]]],
      is_in_progress |-> st.is_in_progress,
      first_to       |-> st.first_to,
      negative_size  |-> st.negative_size,
      deck_size      |-> st.deck_size ]

\* Deserialize for State: it fails on a number outside its field's type
\* (u8 for first_to, negative_size and deck_size, i8 for val).
from_json_ok(j) ==
    /\ \A n \in {j.first_to, j.negative_size, j.deck_size} : n >= 0 /\ n <= 255
    /\ \A r \in 1..Len(j.scores) : \A p \in 1..Len(j.scores[r]) :
          j.scores[r][p].val = JsonNull \/ InI8(j.scores[r][p].val[2])

from_json(j) ==
    [ players        |-> j.players,
      scores         |-> [r \in 1..Len(j.scores) |->
                            [p \in 1..Len(j.scores[r]) |->
                               [ val |-> IF j.scores[r][p].val = JsonNull
                                         THEN None
                                         ELSE Some(j.scores[r][p].val[2]),
                                 is_editing |-> j.scores[r][p].is_editing ]]],
      is_in_progress |-> j.is_in_progress,
      first_to       |-> j.first_to,
      negative_size  |-> j.negative_size,
      deck_size      |-> j.deck_size ]

\* LocalStorage::get(KEY).unwrap_or_else(|_| State::new())
load(stored) ==
    IF stored = <<>> THEN State_new
    ELSE IF from_json_ok(stored[1]) THEN from_json(stored[1])
    ELSE State_new

---------------------------------------------------------------------------
(* Strings: a String is a sequence of characters, stored as UTF-8 bytes.   *)
(* "E_acute" and "e_acute" stand for U+00C9 and U+00E9, two bytes each.    *)

utf8_width(c) == IF c \in {"E_acute", "e_acute"} THEN 2 ELSE 1

RECURSIVE str_len(_)
\* String::len: the length in bytes.
str_len(name) ==
    IF name = <<>> THEN 0
    ELSE utf8_width(Head(name)) + str_len(Tail(name))

\* str::is_char_boundary: byte offset n starts a character or ends the string.
is_char_boundary(name, n) ==
    \E k \in 0..Len(name) : str_len(SubSeq(name, 1, k)) = n

\* &name[..n] for a char boundary n (any other n panics).
str_slice(name, n) ==
    SubSeq(name, 1, CHOOSE k \in 0..Len(name) : str_len(SubSeq(name, 1, k)) = n)

char_to_lowercase(c) ==
    CASE c = "A" -> "a"
      [] c = "E_acute" -> "e_acute"
      [] OTHER -> c

\* str::to_lowercase
to_lowercase(name) == [i \in 1..Len(name) |-> char_to_lowercase(name[i])]

\* Mutant of next_round: the round is pushed at the end of scores.
next_round_push(st) ==
    IF Len(st.players) = 0
    THEN Panic(st)
    ELSE LET round == [i \in 1..Len(st.players) |->
                          [val |-> None, is_editing |-> (i = 1)]]
         IN Ok([st EXCEPT !.scores = st.scores \o <<round>>])

\* Mutant of next_round: the line round[0].is_editing = true is missing.
next_round_no_focus(st) ==
    IF Len(st.players) = 0
    THEN Panic(st)
    ELSE LET round == [i \in 1..Len(st.players) |->
                          [val |-> None, is_editing |-> FALSE]]
         IN Ok([st EXCEPT !.scores = <<round>> \o st.scores])

\* State::next_round: a round of players.len() empty cells, the first one
\* editing, inserted at index 0.  round[0] panics on an empty roster, before
\* the insert.
next_round(st) ==
    IF Len(st.players) = 0
    THEN Panic(st)
    ELSE LET round == [i \in 1..Len(st.players) |->
                          [val |-> None, is_editing |-> (i = 1)]]
         IN Ok([st EXCEPT !.scores = <<round>> \o st.scores])

\* The values player_sum's filter_map yields for column idx, in iteration
\* order (scores[0] first).
column_vals(st, idx) ==
    LET col   == [r \in 1..Len(st.scores) |-> st.scores[r][idx + 1].val]
        somes == SelectSeq(col, LAMBDA o : o # None)
    IN [k \in 1..Len(somes) |-> somes[k][1]]

\* Iterator::sum over i8: a left fold of + from 0.  val is the wrapped
\* result, overflow whether some addition left the i8 range.
RECURSIVE sum_i8(_, _)
sum_i8(vals, acc) ==
    IF vals = <<>>
    THEN acc
    ELSE LET s == acc.val + Head(vals)
         IN sum_i8(Tail(vals),
                   [val |-> Wrap8(s), overflow |-> acc.overflow \/ ~InI8(s)])

\* player_sum panics when round[idx] is out of bounds, and on overflow when
\* the build checks overflow.
player_sum_panics(st, idx) ==
    \/ \E r \in 1..Len(st.scores) : Len(st.scores[r]) <= idx
    \/ /\ overflow_checks
       /\ sum_i8(column_vals(st, idx), [val |-> 0, overflow |-> FALSE]).overflow

player_sum(st, idx) ==
    sum_i8(column_vals(st, idx), [val |-> 0, overflow |-> FALSE]).val

any_none(st) ==
    \E r \in 1..Len(st.scores) : \E p \in 1..Len(st.scores[r]) :
        st.scores[r][p].val = None

\* is_game_over evaluates every player_sum (in max()) once it is past the
\* two early returns.
is_game_over_panics(st) ==
    /\ ~any_none(st)
    /\ Len(st.players) # 0
    /\ \E idx \in 0..(Len(st.players) - 1) : player_sum_panics(st, idx)

\* Mutant of is_game_over: the target must be exceeded (> for >=).
is_game_over_strict(st) ==
    IF any_none(st) THEN FALSE
    ELSE IF Len(st.players) = 0 THEN FALSE
    ELSE LET scores == [i \in 1..Len(st.players) |-> player_sum(st, i - 1)]
             max    == Max({scores[i] : i \in 1..Len(scores)})
             h      == SelectSeq(scores, LAMBDA score : score = max)
             game_has_reached_max_score ==
                 \E i \in 1..Len(scores) : scores[i] > Wrap8(st.first_to)
             no_tie == Len(h) = 1
         IN game_has_reached_max_score /\ no_tie

\* Mutant of is_game_over: the tie test is missing.
is_game_over_no_tie(st) ==
    IF any_none(st) THEN FALSE
    ELSE IF Len(st.players) = 0 THEN FALSE
    ELSE LET scores == [i \in 1..Len(st.players) |-> player_sum(st, i - 1)]
         IN \E i \in 1..Len(scores) : scores[i] >= Wrap8(st.first_to)

is_game_over(st) ==
    IF any_none(st) THEN FALSE
    ELSE IF Len(st.players) = 0 THEN FALSE
    ELSE LET scores == [i \in 1..Len(st.players) |-> player_sum(st, i - 1)]
             max    == Max({scores[i] : i \in 1..Len(scores)})
             h      == SelectSeq(scores, LAMBDA score : score = max)
             game_has_reached_max_score ==
                 \E i \in 1..Len(scores) : scores[i] >= Wrap8(st.first_to)
             no_tie == Len(h) = 1
         IN game_has_reached_max_score /\ no_tie

\* Mutant of sort_insert: an element goes before the elements equal to it
\* (a sort that does not keep the roster order of ties).
sort_insert_before(sorted, e) ==
    LET k == Cardinality({i \in 1..Len(sorted) : sorted[i][2] > e[2]})
    IN SubSeq(sorted, 1, k) \o <<e>> \o SubSeq(sorted, k + 1, Len(sorted))

\* slice::sort_by is a stable sort; with the comparator b.cmp(a) an element
\* goes after every element whose total is >= its own.
sort_insert(sorted, e) ==
    LET k == Cardinality({i \in 1..Len(sorted) : sorted[i][2] >= e[2]})
    IN SubSeq(sorted, 1, k) \o <<e>> \o SubSeq(sorted, k + 1, Len(sorted))

RECURSIVE sort_by(_)
sort_by(pairs) ==
    IF pairs = <<>>
    THEN <<>>
    ELSE sort_insert(sort_by(SubSeq(pairs, 1, Len(pairs) - 1)), pairs[Len(pairs)])

get_leader_board_panics(st) ==
    \E idx \in 0..(Len(st.players) - 1) : player_sum_panics(st, idx)

get_leader_board(st) ==
    LET scores == [i \in 1..Len(st.players) |-> <<i - 1, player_sum(st, i - 1)>>]
        sorted == sort_by(scores)
    IN [i \in 1..Len(sorted) |-> sorted[i][1]]

\* Mutant of get_next_empty: the rounds are searched without .rev(), the
\* most recent one (index 0) first.
get_next_empty_recent_first(st) ==
    LET rounds == {r \in 1..Len(st.scores) :
                      \E p \in 1..Len(st.scores[r]) : st.scores[r][p].val = None}
    IN IF rounds = {}
       THEN <<>>
       ELSE LET r == Min(rounds)
                p == Min({q \in 1..Len(st.scores[r]) : st.scores[r][q].val = None})
            IN <<r, p>>

\* App::get_next_empty: scores.iter_mut().rev() visits the highest index
\* first; find takes the lowest player index of that round.  The result is
\* the 1-based place <<r, p>> of the cell, or << >> for None.
get_next_empty(st) ==
    LET rounds == {r \in 1..Len(st.scores) :
                      \E p \in 1..Len(st.scores[r]) : st.scores[r][p].val = None}
    IN IF rounds = {}
       THEN <<>>
       ELSE LET r == Max(rounds)
                p == Min({q \in 1..Len(st.scores[r]) : st.scores[r][q].val = None})
            IN <<r, p>>

\* App::find_unique_prefix, one pass of the while loop: the players other
\* than idx whose slice panics or collides; the for loop stops at the first.
prefix_hits(players, idx, prefix_len) ==
    {other_idx \in 0..(Len(players) - 1) :
        /\ other_idx # idx
        /\ LET other_name == players[other_idx + 1]
               n == Min({prefix_len, str_len(other_name)})
           IN \/ ~is_char_boundary(other_name, n)
              \/ to_lowercase(str_slice(players[idx + 1], prefix_len))
                    = to_lowercase(str_slice(other_name, n))}

prefix_panics_at(players, idx, prefix_len) ==
    \/ ~is_char_boundary(players[idx + 1], prefix_len)
    \/ LET hits == prefix_hits(players, idx, prefix_len)
       IN /\ hits # {}
          /\ LET other_name == players[Min(hits) + 1]
             IN ~is_char_boundary(other_name,
                                  Min({prefix_len, str_len(other_name)}))

RECURSIVE find_unique_prefix_from(_, _, _)
\* The while loop from prefix_len on: [panic, val].
find_unique_prefix_from(players, idx, prefix_len) ==
    LET current_name == players[idx + 1]
    IN IF prefix_len > str_len(current_name)
       THEN [panic |-> FALSE, val |-> current_name]
       ELSE IF prefix_panics_at(players, idx, prefix_len)
       THEN [panic |-> TRUE, val |-> <<>>]
       ELSE IF prefix_hits(players, idx, prefix_len) = {}
       THEN [panic |-> FALSE, val |-> str_slice(current_name, prefix_len)]
       ELSE find_unique_prefix_from(players, idx, prefix_len + 1)

\* App::find_unique_prefix
find_unique_prefix(st, idx) == find_unique_prefix_from(st.players, idx, 1)

\* App::get_focused: the first editing cell, rounds from index 0, or (0, 0);
\* the pair stands for the key "round_player".
get_focused(st) ==
    LET rounds == {r \in 1..Len(st.scores) :
                      \E p \in 1..Len(st.scores[r]) : st.scores[r][p].is_editing}
    IN IF rounds = {}
       THEN <<0, 0>>
       ELSE LET r == Min(rounds)
                p == Min({q \in 1..Len(st.scores[r]) : st.scores[r][q].is_editing})
            IN <<r - 1, p - 1>>

\* make_refs: one key per cell of the state.
make_refs(st) ==
    {c \in (0..(Len(st.scores) - 1)) \X (0..(MaxPlayers + 1)) :
        c[2] < Len(st.scores[c[1] + 1])}

\* App::rendered after App::create: refs.get(&self.get_focused()).unwrap()
\* over the refs make_refs built.
rendered_panics(st) == st.is_in_progress /\ get_focused(st) \notin make_refs(st)

\* App::view: is_game_over always, and one name prefix and one total per
\* player in the score table, which is rendered while the game is in progress.
view_panics(st) ==
    \/ is_game_over_panics(st)
    \/ /\ st.is_in_progress
       /\ \E idx \in 0..(Len(st.players) - 1) :
             find_unique_prefix(st, idx).panic \/ player_sum_panics(st, idx)

view_out(st) ==
    [ is_game_over  |-> is_game_over(st),
      unique_prefix |-> IF st.is_in_progress
                        THEN [i \in 1..Len(st.players) |->
                                 find_unique_prefix(st, i - 1).val]
                        ELSE <<>>,
      player_sum    |-> IF st.is_in_progress
                        THEN [i \in 1..Len(st.players) |-> player_sum(st, i - 1)]
                        ELSE <<>> ]

---------------------------------------------------------------------------
(* The arms of App::update *)

\* Mutant of ScoreEnter: the entered cell keeps its is_editing flag.
ScoreEnter_keeps_flag(st, round, player, score) ==
    IF round >= Len(st.scores)
    THEN Panic(st)
    ELSE IF player >= Len(st.scores[round + 1])
    THEN Panic(st)
    ELSE LET s1 == [st EXCEPT !.scores[round + 1][player + 1].val = Some(score)]
             ne == get_next_empty(s1)
         IN IF ne # <<>>
            THEN Ok([s1 EXCEPT !.scores[ne[1]][ne[2]].is_editing = TRUE])
            ELSE IF is_game_over_panics(s1)
            THEN Panic(s1)
            ELSE IF ~is_game_over(s1)
            THEN next_round(s1)
            ELSE Ok(s1)

\* Mutant of ScoreEnter: no search for an empty cell, a round is added
\* whenever the game is not over.
ScoreEnter_no_search(st, round, player, score) ==
    IF round >= Len(st.scores)
    THEN Panic(st)
    ELSE IF player >= Len(st.scores[round + 1])
    THEN Panic(st)
    ELSE LET s1 == [st EXCEPT !.scores[round + 1][player + 1] =
                        [val |-> Some(score), is_editing |-> FALSE]]
         IN IF is_game_over_panics(s1)
            THEN Panic(s1)
            ELSE IF ~is_game_over(s1)
            THEN next_round(s1)
            ELSE Ok(s1)

ScoreEnter(st, round, player, score) ==
    IF round >= Len(st.scores)
    THEN Panic(st)
    ELSE IF player >= Len(st.scores[round + 1])
    THEN Panic(st)
    ELSE LET s1 == [st EXCEPT !.scores[round + 1][player + 1] =
                        [val |-> Some(score), is_editing |-> FALSE]]
             ne == get_next_empty(s1)
         IN IF ne # <<>>
            THEN Ok([s1 EXCEPT !.scores[ne[1]][ne[2]].is_editing = TRUE])
            ELSE IF is_game_over_panics(s1)
            THEN Panic(s1)
            ELSE IF ~is_game_over(s1)
            THEN next_round(s1)
            ELSE Ok(s1)

\* Mutant of ScoreEdit: the flag is set on the requested cell and the other
\* cells keep theirs.
ScoreEdit_keeps_others(st, round_idx_edit, player_idx_edit) ==
    Ok([st EXCEPT !.scores =
        [round_idx \in 1..Len(st.scores) |->
            [player_idx \in 1..Len(st.scores[round_idx]) |->
                [st.scores[round_idx][player_idx] EXCEPT !.is_editing =
                    \/ st.scores[round_idx][player_idx].is_editing
                    \/ (round_idx - 1 = round_idx_edit /\ player_idx - 1 = player_idx_edit)]]]])

ScoreEdit(st, round_idx_edit, player_idx_edit) ==
    Ok([st EXCEPT !.scores =
        [round_idx \in 1..Len(st.scores) |->
            [player_idx \in 1..Len(st.scores[round_idx]) |->
                [st.scores[round_idx][player_idx] EXCEPT !.is_editing =
                    (round_idx - 1 = round_idx_edit /\ player_idx - 1 = player_idx_edit)]]]])

\* Mutant of GameNew: the roster is not carried over.
GameNew_drops_players(st) == Ok(State_new)

GameNew(st) == Ok([State_new EXCEPT !.players = st.players])

GameStart(st) == next_round([st EXCEPT !.is_in_progress = TRUE])

PlayerAdd(st, name) == Ok([st EXCEPT !.players = Append(st.players, name)])

\* Vec::remove panics when idx >= len.
PlayerRemove(st, idx) ==
    IF idx >= Len(st.players)
    THEN Panic(st)
    ELSE Ok([st EXCEPT !.players =
                SubSeq(st.players, 1, idx) \o SubSeq(st.players, idx + 2, Len(st.players))])

---------------------------------------------------------------------------
(* Messages *)

Message(op, round, player, score, idx, name) ==
    [op |-> op, round |-> round, player |-> player, score |-> score,
     idx |-> idx, name |-> name]

MsgScoreEnter(round, player, score) == Message("ScoreEnter", round, player, score, 0, <<>>)
MsgScoreEdit(round, player) == Message("ScoreEdit", round, player, 0, 0, <<>>)
MsgGameNew == Message("GameNew", 0, 0, 0, 0, <<>>)
MsgGameStart == Message("GameStart", 0, 0, 0, 0, <<>>)
MsgPlayerAdd(name) == Message("PlayerAdd", 0, 0, 0, 0, name)
MsgPlayerRemove(idx) == Message("PlayerRemove", 0, 0, 0, idx, <<>>)
\* Not messages of AppMsg: the component before and after App::create.
MsgBoot == Message("Boot", 0, 0, 0, 0, <<>>)
MsgCreate == Message("Create", 0, 0, 0, 0, <<>>)

match(st, m) ==
    CASE m.op = "ScoreEnter"   -> ScoreEnter(st, m.round, m.player, m.score)
      [] m.op = "ScoreEdit"    -> ScoreEdit(st, m.round, m.player)
      [] m.op = "GameNew"      -> GameNew(st)
      [] m.op = "GameStart"    -> GameStart(st)
      [] m.op = "PlayerAdd"    -> PlayerAdd(st, m.name)
      [] m.op = "PlayerRemove" -> PlayerRemove(st, m.idx)

\* App::update: the arm for m, then the leaderboard recomputation, then the
\* save; it returns true, so the component renders (App::view) before the
\* next message.  A panic in the arm or in get_leader_board leaves the
\* leaderboard and the storage as they were.  The two length guards bound
\* the model.  App::rendered finds its key after an update that returned:
\* refs holds a key for every cell of the state, and in progress the state
\* has a cell (0, 0).
update(m) ==
    /\ ~panicked
    /\ msg.op # "Boot"
    /\ LET res == match(state, m)
       IN /\ Len(res.st.scores) <= MaxRounds
          /\ Len(res.st.players) <= MaxPlayers
          /\ msg' = m
          /\ state' = res.st
          /\ IF res.panic \/ get_leader_board_panics(res.st)
             THEN /\ panicked' = TRUE
                  /\ UNCHANGED <<leaderboard, storage, view>>
             ELSE /\ leaderboard' = get_leader_board(res.st)
                  /\ storage' = <<to_json(res.st)>>
                  /\ IF view_panics(res.st)
                     THEN panicked' = TRUE /\ UNCHANGED view
                     ELSE panicked' = FALSE /\ view' = view_out(res.st)
    /\ UNCHANGED overflow_checks

\* App::create: the session under KEY, or State::new() when there is none
\* (or none that deserializes); then the leaderboard, the first render and
\* App::rendered.
create ==
    /\ msg.op = "Boot"
    /\ LET st == load(storage)
       IN /\ state' = st
          /\ msg' = MsgCreate
          /\ IF get_leader_board_panics(st)
             THEN panicked' = TRUE /\ UNCHANGED <<leaderboard, view>>
             ELSE /\ leaderboard' = get_leader_board(st)
                  /\ IF view_panics(st)
                     THEN panicked' = TRUE /\ UNCHANGED view
                     ELSE /\ panicked' = rendered_panics(st)
                          /\ view' = view_out(st)
    /\ UNCHANGED <<storage, overflow_checks>>

\* The cells the table renders: 0-based coordinates.
Cells(st) ==
    {c \in (0..(Len(st.scores) - 1)) \X (0..(MaxPlayers + 1)) :
        c[2] < Len(st.scores[c[1] + 1])}

Cell(st, c) == st.scores[c[1] + 1][c[2] + 1]

---------------------------------------------------------------------------
(* Spec: the component driven by its own view.  The view offers the roster *)
(* controls only while the game is not in progress, enables START GAME     *)
(* only with two players or more, renders an <input> (the source of        *)
(* ScoreEnter) only in a cell that is editing, and sends ScoreEdit from a  *)
(* click on any cell.                                                      *)

\* App::create with nothing under KEY.
Init ==
    /\ state = State_new
    /\ leaderboard = get_leader_board(State_new)
    /\ storage = <<>>
    /\ view = view_out(State_new)
    /\ panicked = FALSE
    /\ msg = MsgCreate
    /\ overflow_checks \in BOOLEAN

ViewPlayerAdd ==
    /\ ~state.is_in_progress
    /\ \E name \in Names : update(MsgPlayerAdd(name))

ViewPlayerRemove ==
    /\ ~state.is_in_progress
    /\ \E idx \in 0..(Len(state.players) - 1) : update(MsgPlayerRemove(idx))

ViewGameStart ==
    /\ ~state.is_in_progress
    /\ Len(state.players) >= 2
    /\ update(MsgGameStart)

ViewScoreEnter ==
    /\ state.is_in_progress
    /\ \E c \in Cells(state) :
          /\ Cell(state, c).is_editing
          /\ \E score \in Vals : update(MsgScoreEnter(c[1], c[2], score))

ViewScoreEdit ==
    /\ state.is_in_progress
    /\ \E c \in Cells(state) : update(MsgScoreEdit(c[1], c[2]))

ViewGameNew ==
    /\ state.is_in_progress
    /\ update(MsgGameNew)

Next ==
    \/ ViewPlayerAdd
    \/ ViewPlayerRemove
    \/ ViewGameStart
    \/ ViewScoreEnter
    \/ ViewScoreEdit
    \/ ViewGameNew

Spec == Init /\ [][Next]_vars

---------------------------------------------------------------------------
(* SpecUpdate: update driven by any message of its phase.  Roster messages *)
(* and GameStart arrive while the game is not in progress, with any index  *)
(* and any roster size; ScoreEnter and ScoreEdit arrive in progress for    *)
(* any existing cell, editing or not; GameNew arrives at any time.         *)

SendPlayerAdd ==
    /\ ~state.is_in_progress
    /\ \E name \in Names : update(MsgPlayerAdd(name))

SendPlayerRemove ==
    /\ ~state.is_in_progress
    /\ \E idx \in 0..MaxPlayers : update(MsgPlayerRemove(idx))

SendGameStart ==
    /\ ~state.is_in_progress
    /\ update(MsgGameStart)

SendScoreEnter ==
    /\ state.is_in_progress
    /\ \E c \in Cells(state) : \E score \in Vals :
          update(MsgScoreEnter(c[1], c[2], score))

SendScoreEdit ==
    /\ state.is_in_progress
    /\ \E c \in Cells(state) : update(MsgScoreEdit(c[1], c[2]))

SendGameNew ==
    /\ state.is_in_progress \in BOOLEAN
    /\ update(MsgGameNew)

NextUpdate ==
    \/ SendPlayerAdd
    \/ SendPlayerRemove
    \/ SendGameStart
    \/ SendScoreEnter
    \/ SendScoreEdit
    \/ SendGameNew

SpecUpdate == Init /\ [][NextUpdate]_vars

---------------------------------------------------------------------------
(* SpecAny: update driven by any sequence of the six messages of AppMsg,   *)
(* whatever the phase: the roster messages and GameStart also arrive while *)
(* the game is in progress.  ScoreEnter and ScoreEdit name existing cells. *)

\* The scores entered under SpecAny: an ordinary one and one that reaches
\* first_to.
AnyVals == { 5, 100 }

AnyPlayerAdd ==
    /\ state.is_in_progress \in BOOLEAN
    /\ \E name \in Names : update(MsgPlayerAdd(name))

AnyPlayerRemove ==
    /\ state.is_in_progress \in BOOLEAN
    /\ \E idx \in 0..MaxPlayers : update(MsgPlayerRemove(idx))

AnyGameStart ==
    /\ state.is_in_progress \in BOOLEAN
    /\ update(MsgGameStart)

AnyScoreEnter ==
    \E c \in Cells(state) : \E score \in AnyVals :
        update(MsgScoreEnter(c[1], c[2], score))

AnyScoreEdit == \E c \in Cells(state) : update(MsgScoreEdit(c[1], c[2]))

AnyGameNew ==
    /\ state.is_in_progress \in BOOLEAN
    /\ update(MsgGameNew)

NextAny ==
    \/ AnyPlayerAdd
    \/ AnyPlayerRemove
    \/ AnyGameStart
    \/ AnyScoreEnter
    \/ AnyScoreEdit
    \/ AnyGameNew

SpecAny == Init /\ [][NextAny]_vars

---------------------------------------------------------------------------
(* SpecLoad: App::create over a stored session.  The stored sessions are   *)
(* the well-shaped ones within the bounds: up to MaxPlayers players, up to *)
(* MaxRounds rounds of one cell per player, every cell empty or holding a  *)
(* value of Vals; first_to and the cosmetic fields as State::new sets      *)
(* them.  The queries of the view are then applied to the loaded grid.     *)

StoredRounds(n) ==
    [1..n -> [val : {None} \cup {Some(v) : v \in Vals}, is_editing : {FALSE}]]

StoredState(n, scores) ==
    [State_new EXCEPT !.players = [i \in 1..n |-> <<"A", "l">>],
                      !.scores = scores,
                      !.is_in_progress = (Len(scores) > 0)]

InitLoad ==
    /\ state = State_new
    /\ leaderboard = <<>>
    /\ \/ storage = <<>>
       \/ \E n \in 0..MaxPlayers : \E k \in 0..MaxRounds :
             \E scores \in [1..k -> StoredRounds(n)] :
                storage = <<to_json(StoredState(n, scores))>>
    /\ view = view_out(State_new)
    /\ panicked = FALSE
    /\ msg = MsgBoot
    /\ overflow_checks \in BOOLEAN

NextLoad == create

SpecLoad == InitLoad /\ [][NextLoad]_vars

---------------------------------------------------------------------------
(* SpecSession: a page load over an absent, an unloadable or a loadable     *)
(* session, then the component driven by its own view.                      *)

\* A stored session no State deserializes from: first_to does not fit u8.
Unloadable ==
    [to_json(StoredState(MaxPlayers, <<>>)) EXCEPT !.first_to = 256]

InitSession ==
    /\ state = State_new
    /\ leaderboard = <<>>
    /\ storage \in { <<>>, <<Unloadable>>,
                     <<to_json(StoredState(MaxPlayers, <<>>))>> }
    /\ view = view_out(State_new)
    /\ panicked = FALSE
    /\ msg = MsgBoot
    /\ overflow_checks \in BOOLEAN

NextSession ==
    \/ create
    \/ ViewPlayerAdd
    \/ ViewPlayerRemove
    \/ ViewGameStart
    \/ ViewScoreEnter
    \/ ViewScoreEdit
    \/ ViewGameNew

SpecSession == InitSession /\ [][NextSession]_vars

---------------------------------------------------------------------------
(* SpecNames: App::create over a stored game in its first round, for every *)
(* roster of names of MaxNameLen characters at most.                       *)

NameChars == { "A", "a", "E_acute" }

BoundedNames == UNION { [1..n -> NameChars] : n \in 0..MaxNameLen }

InitNames ==
    /\ state = State_new
    /\ leaderboard = <<>>
    /\ \E n \in 1..MaxPlayers : \E roster \in [1..n -> BoundedNames] :
          storage = <<to_json([State_new EXCEPT
                        !.players = roster,
                        !.scores = << [p \in 1..n |->
                                         [val |-> None, is_editing |-> (p = 1)]] >>,
                        !.is_in_progress = TRUE])>>
    /\ view = view_out(State_new)
    /\ panicked = FALSE
    /\ msg = MsgBoot
    /\ overflow_checks \in BOOLEAN

NextNames == create

SpecNames == InitNames /\ [][NextNames]_vars

---------------------------------------------------------------------------
(* Properties *)

EditingCells(st) == {c \in Cells(st) : Cell(st, c).is_editing}

\* Totals as the program computes them (player_sum), and the players that
\* hold the highest one.
Totals(st) == {player_sum(st, idx) : idx \in 0..(Len(st.players) - 1)}
Leaders(st) ==
    {idx \in 0..(Len(st.players) - 1) : player_sum(st, idx) = Max(Totals(st))}

HasEmptyCell(st) ==
    \E c \in Cells(st) : Cell(st, c).val = None

\* The grid right after line 296-299 of a ScoreEnter message m.
Entered(st, m) ==
    [st EXCEPT !.scores[m.round + 1][m.player + 1] =
        [val |-> Some(m.score), is_editing |-> FALSE]]

FreshRound(n) == [i \in 1..n |-> [val |-> None, is_editing |-> (i = 1)]]

\* The integer sum of the values of column idx, over all rounds.
RECURSIVE ColumnSumFrom(_, _, _)
ColumnSumFrom(st, idx, r) ==
    IF r > Len(st.scores)
    THEN 0
    ELSE (IF st.scores[r][idx + 1].val = None THEN 0 ELSE st.scores[r][idx + 1].val[1])
         + ColumnSumFrom(st, idx, r + 1)

ColumnSum(st, idx) == ColumnSumFrom(st, idx, 1)

\* C1: in every state reachable by roster messages and GameStart before the
\* game, ScoreEnter and ScoreEdit on any existing cell during it, and
\* GameNew, at most one cell of the grid is editing.
C1_FocusInvariant == Cardinality(EditingCells(state)) <= 1

\* The specification of is_game_over (spec 4.3).
GameOverBySpec(st) ==
    IF HasEmptyCell(st) THEN FALSE
    ELSE IF Len(st.players) = 0 THEN FALSE
    ELSE Max(Totals(st)) >= st.first_to /\ Cardinality(Leaders(st)) = 1

\* C2: for every grid, is_game_over() is false when a cell is None, false
\* with no players, and otherwise true exactly when the highest player_sum
\* is >= first_to and one player alone has it.
C2_IsGameOverMatchesSpec ==
    (msg.op # "Boot" /\ ~panicked) => (view.is_game_over = GameOverBySpec(state))

\* A loaded full grid of two or more players on which the game is over, the
\* leader's total being exactly first_to.
C2_Witness ==
    /\ msg.op = "Create" /\ ~panicked
    /\ Len(state.players) >= 2 /\ Len(state.scores) >= 1
    /\ view.is_game_over
    /\ Max(Totals(state)) = state.first_to

\* C3: player_sum(i) is, for every player and in every reachable state, the
\* integer sum of the values of column i, also when that sum is outside the
\* i8 range.
C3_PlayerSumIsColumnSum ==
    \A idx \in 0..(Len(state.players) - 1) :
        /\ ~player_sum_panics(state, idx)
        /\ player_sum(state, idx) = ColumnSum(state, idx)

\* Two players or more share the highest total, which is >= first_to, and
\* no cell is empty.
TiedAtTarget(st) ==
    /\ ~HasEmptyCell(st)
    /\ Len(st.players) > 0
    /\ Max(Totals(st)) >= st.first_to
    /\ Cardinality(Leaders(st)) >= 2

\* C4: when a ScoreEnter fills the last empty cell and leaves two or more
\* players tied for the highest total, that total being >= first_to, the
\* game is not over and exactly one round is added, at index 0, all its
\* cells None and its first cell editing.
C4_TieForcesAnotherRound ==
    [][ (msg'.op = "ScoreEnter" /\ ~panicked' /\ TiedAtTarget(Entered(state, msg')))
        => /\ ~view'.is_game_over
           /\ Len(state'.scores) = Len(state.scores) + 1
           /\ state'.scores[1] = FreshRound(Len(state.players))
           /\ Tail(state'.scores) = Entered(state, msg').scores ]_vars

\* The state after such a ScoreEnter: a fresh round above a full grid tied
\* at the target.
C4_Witness ==
    /\ msg.op = "ScoreEnter" /\ ~panicked
    /\ Len(state.scores) >= 2
    /\ state.scores[1] = FreshRound(Len(state.players))
    /\ TiedAtTarget([state EXCEPT !.scores = Tail(state.scores)])

\* C5: when a ScoreEnter leaves no empty cell and is_game_over() is true,
\* it leaves the number of rounds as it was and no cell editing.
C5_GameOverPath ==
    [][ (msg'.op = "ScoreEnter" /\ ~panicked' /\ ~HasEmptyCell(state')
            /\ view'.is_game_over)
        => /\ Len(state'.scores) = Len(state.scores)
           /\ EditingCells(state') = {} ]_vars

\* The state after a ScoreEnter that ended a two-round game.
C5_Witness ==
    /\ msg.op = "ScoreEnter" /\ ~panicked
    /\ Len(state.scores) >= 2
    /\ ~HasEmptyCell(state)
    /\ view.is_game_over
    /\ EditingCells(state) = {}

\* C6: after a ScoreEnter on the editing cell, exactly one cell is editing,
\* unless is_game_over() is then true, and then none is.
C6_EditCursor ==
    [][ (msg'.op = "ScoreEnter" /\ ~panicked'
            /\ <<msg'.round, msg'.player>> \in EditingCells(state))
        => IF view'.is_game_over
           THEN EditingCells(state') = {}
           ELSE Cardinality(EditingCells(state')) = 1 ]_vars

\* The state after a ScoreEnter that completed a round without ending the
\* game: the cursor is on the first cell of the new round.
C6_Witness ==
    /\ msg.op = "ScoreEnter" /\ ~panicked
    /\ ~view.is_game_over
    /\ Len(state.scores) >= 2
    /\ EditingCells(state) = {<<0, 0>>}
    /\ ~HasEmptyCell([state EXCEPT !.scores = Tail(state.scores)])

\* C7 as claimed: after ScoreEnter(r, p, v) the cell at the same coordinate
\* (r, p) holds v and is not editing.
C7_ReadBackSameCoordinate ==
    (msg.op = "ScoreEnter" /\ ~panicked)
        => /\ <<msg.round, msg.player>> \in Cells(state)
           /\ Cell(state, <<msg.round, msg.player>>) =
                 [val |-> Some(msg.score), is_editing |-> FALSE]

\* C7 amended: after ScoreEnter(r, p, v) the entered cell holds v and is not
\* editing; it is at (r, p) when the message added no round and at
\* (r + 1, p) when it added one (a round is inserted at index 0).
C7_ReadBackShifted ==
    [][ (msg'.op = "ScoreEnter" /\ ~panicked')
        => LET k == Len(state'.scores) - Len(state.scores)
           IN /\ k \in {0, 1}
              /\ <<msg'.round + k, msg'.player>> \in Cells(state')
              /\ Cell(state', <<msg'.round + k, msg'.player>>) =
                    [val |-> Some(msg'.score), is_editing |-> FALSE] ]_vars

\* The state after a ScoreEnter on (0, p) that added a round: the value is
\* read back at (1, p), and (0, p) is an empty cell of the new round.
C7_Witness ==
    /\ msg.op = "ScoreEnter" /\ ~panicked
    /\ msg.round = 0
    /\ Len(state.scores) >= 2
    /\ state.scores[1] = FreshRound(Len(state.players))
    /\ ~HasEmptyCell([state EXCEPT !.scores = Tail(state.scores)])
    /\ Cell(state, <<1, msg.player>>) = [val |-> Some(msg.score), is_editing |-> FALSE]

\* C8: the stored leaderboard is a permutation of the roster indices, in
\* descending order of player_sum, players of equal total in roster order.
\* (These three conditions determine the sequence, so the stored one is
\* the recomputation from the current rounds.)
C8_LeaderboardOrdered ==
    (msg.op # "Boot" /\ ~panicked)
        => /\ Len(leaderboard) = Len(state.players)
           /\ {leaderboard[i] : i \in 1..Len(leaderboard)} = 0..(Len(state.players) - 1)
           /\ \A i, j \in 1..Len(leaderboard) :
                 i < j =>
                    \/ player_sum(state, leaderboard[i]) > player_sum(state, leaderboard[j])
                    \/ /\ player_sum(state, leaderboard[i]) = player_sum(state, leaderboard[j])
                       /\ leaderboard[i] < leaderboard[j]

\* A game in which two players have the same total, not zero, and another
\* round was played.
C8_Witness ==
    /\ msg.op = "ScoreEnter" /\ ~panicked
    /\ Len(state.scores) >= 2
    /\ \E a, b \in 0..(Len(state.players) - 1) :
          /\ a < b
          /\ player_sum(state, a) = player_sum(state, b)
          /\ player_sum(state, a) # 0

\* C9: PlayerAdd with an empty name leaves the session as it was; with a
\* non-empty name it appends that player and changes nothing else.
C9_AddPlayerContract ==
    [][ msg'.op = "PlayerAdd"
        => IF msg'.name = <<>>
           THEN state' = state
           ELSE state' = [state EXCEPT !.players = Append(state.players, msg'.name)] ]_vars

\* C10: PlayerRemove with idx >= players.len() leaves the session as it was
\* and does not abort; with idx in range it removes that player and moves
\* the later ones down by one.
C10_RemovePlayerContract ==
    [][ msg'.op = "PlayerRemove"
        => /\ ~panicked'
           /\ IF msg'.idx >= Len(state.players)
              THEN state' = state
              ELSE /\ Len(state'.players) = Len(state.players) - 1
                   /\ \A i \in 1..Len(state'.players) :
                         state'.players[i] =
                            IF i <= msg'.idx THEN state.players[i] ELSE state.players[i + 1]
                   /\ state' = [state EXCEPT !.players = state'.players] ]_vars

\* C11: GameStart before the game returns for every roster size, 0 and 1
\* included, and leaves is_in_progress = true with exactly one round of
\* players.len() cells, all None, cell (0, 0) the only editing one when it
\* exists; it is never left with is_in_progress = true and no round.
C11_StartGameContract ==
    [][ (msg'.op = "GameStart" /\ ~state.is_in_progress)
        => /\ ~panicked'
           /\ state'.is_in_progress
           /\ Len(state'.scores) = 1
           /\ Len(state'.scores[1]) = Len(state.players)
           /\ \A p \in 1..Len(state'.scores[1]) :
                 /\ state'.scores[1][p].val = None
                 /\ state'.scores[1][p].is_editing = (p = 1)
           /\ state'.players = state.players ]_vars

\* C12: GameNew, from any state, leaves the roster as it was and resets the
\* rest: no rounds, is_in_progress false, first_to 100.
C12_NewGameKeepsRoster ==
    [][ msg'.op = "GameNew"
        => /\ ~panicked'
           /\ state'.players = state.players
           /\ state'.scores = <<>>
           /\ ~state'.is_in_progress
           /\ state'.first_to = 100 ]_vars

\* The state after a GameNew that kept a roster of two or more players.
C12_Witness ==
    /\ msg.op = "GameNew" /\ ~panicked
    /\ Len(state.players) >= 2
    /\ state.scores = <<>>
    /\ ~state.is_in_progress

\* C13: ScoreEdit on an existing cell leaves that cell, and no other,
\* editing, and leaves every value, the number and width of the rounds, the
\* roster and is_in_progress as they were.
C13_SelectCellFrame ==
    [][ (msg'.op = "ScoreEdit" /\ <<msg'.round, msg'.player>> \in Cells(state))
        => /\ ~panicked'
           /\ EditingCells(state') = {<<msg'.round, msg'.player>>}
           /\ Cells(state') = Cells(state)
           /\ Len(state'.scores) = Len(state.scores)
           /\ \A c \in Cells(state) : Cell(state', c).val = Cell(state, c).val
           /\ state'.players = state.players
           /\ state'.is_in_progress = state.is_in_progress
           /\ state'.first_to = state.first_to ]_vars

\* The state after a ScoreEdit on a filled cell while another cell is empty:
\* the clicked cell is the one editing cell and keeps its value.
C13_Witness ==
    /\ msg.op = "ScoreEdit" /\ ~panicked
    /\ EditingCells(state) = {<<msg.round, msg.player>>}
    /\ Cell(state, <<msg.round, msg.player>>).val # None
    /\ HasEmptyCell(state)

\* The 0-based rounds of st that hold an empty cell, and the lowest player
\* index of an empty cell of round r.
IncompleteRounds(st) ==
    {r \in 0..(Len(st.scores) - 1) :
        \E c \in Cells(st) : c[1] = r /\ Cell(st, c).val = None}

FirstEmpty(st, r) ==
    Min({c[2] : c \in {d \in Cells(st) : d[1] = r /\ Cell(st, d).val = None}})

\* st with cell c made the editing one, the other flags as they are.
Focused(st, c) == [st EXCEPT !.scores[c[1] + 1][c[2] + 1].is_editing = TRUE]

\* C14 as claimed: after a ScoreEnter that leaves an empty cell, the cell
\* that gets the focus is the lowest-index empty cell of the most recent
\* round (the lowest index of scores) that holds an empty cell.
C14_FocusMostRecentRound ==
    [][ (msg'.op = "ScoreEnter" /\ ~panicked' /\ HasEmptyCell(Entered(state, msg')))
        => LET s1 == Entered(state, msg')
               r  == Min(IncompleteRounds(s1))
           IN state' = Focused(s1, <<r, FirstEmpty(s1, r)>>) ]_vars

\* C14 amended: after a ScoreEnter that leaves an empty cell, the cell that
\* gets the focus is the lowest-index empty cell of the oldest round (the
\* highest index of scores) that holds an empty cell.
C14_FocusOldestRound ==
    [][ (msg'.op = "ScoreEnter" /\ ~panicked' /\ HasEmptyCell(Entered(state, msg')))
        => LET s1 == Entered(state, msg')
               r  == Max(IncompleteRounds(s1))
           IN state' = Focused(s1, <<r, FirstEmpty(s1, r)>>) ]_vars

\* The state after a ScoreEnter with two incomplete rounds: the first empty
\* cell of the older round is editing, and the most recent round has an
\* empty cell too.
C14_Witness ==
    /\ msg.op = "ScoreEnter" /\ ~panicked
    /\ IncompleteRounds(state) = {0, 1}
    /\ Cell(state, <<1, FirstEmpty(state, 1)>>).is_editing
    /\ ~Cell(state, <<0, FirstEmpty(state, 0)>>).is_editing

\* C15: in every state reachable by the six messages in any order, every
\* round has exactly players.len() cells, and player_sum and the leaderboard
\* are defined for every roster index.
C15_GridShape ==
    /\ \A r \in 1..Len(state.scores) : Len(state.scores[r]) = Len(state.players)
    /\ \A idx \in 0..(Len(state.players) - 1) :
          \A r \in 1..Len(state.scores) : idx < Len(state.scores[r])

AppMsgOps ==
    {"ScoreEnter", "ScoreEdit", "GameNew", "GameStart", "PlayerAdd", "PlayerRemove"}

\* C16: after every message update processed to completion, the session
\* stored under KEY loads back as the in-memory session; and App::create
\* over an absent or unloadable session starts from a fresh State: no
\* players, no rounds, not in progress, first_to = 100.
C16_Persistence ==
    /\ (msg.op \in AppMsgOps /\ ~panicked)
          => /\ storage # <<>>
             /\ from_json_ok(storage[1])
             /\ from_json(storage[1]) = state
    /\ (msg.op = "Create" /\ (storage = <<>> \/ ~from_json_ok(storage[1])))
          => /\ state.players = <<>>
             /\ state.scores = <<>>
             /\ ~state.is_in_progress
             /\ state.first_to = 100

\* A saved game in progress: a filled cell, an empty one and the cursor.
C16_Witness ==
    /\ msg.op = "ScoreEnter" /\ ~panicked
    /\ storage # <<>>
    /\ from_json(storage[1]) = state
    /\ EditingCells(state) # {}
    /\ \E c \in Cells(state) : Cell(state, c).val # None

\* The shortest prefix, in characters, of player i's name (1-based) whose
\* lower-cased form differs from the lower-cased prefix of the same length,
\* clamped, of every other name; the full name when there is none.
ShortestUniquePrefix(players, i) ==
    LET name == players[i]
        lens == {n \in 1..Len(name) :
                    \A j \in 1..Len(players) :
                       j # i =>
                          to_lowercase(SubSeq(name, 1, n)) #
                             to_lowercase(SubSeq(players[j], 1,
                                                 Min({n, Len(players[j])})))}
    IN IF lens = {} THEN name ELSE SubSeq(name, 1, Min(lens))

\* C17: for every roster of bounded names, the score table shows for every
\* player the shortest case-insensitively unique prefix of the name, or the
\* full name when no prefix is unique.
C17_UniquePrefix ==
    (msg.op = "Create" /\ state.is_in_progress)
       => /\ ~panicked
          /\ \A i \in 1..Len(state.players) :
                view.unique_prefix[i] = ShortestUniquePrefix(state.players, i)

\* Every round but the most recent one (index 0) has all its cells filled.
OlderRoundsFull(st) ==
    \A c \in Cells(st) : c[1] > 0 => Cell(st, c).val # None

\* C18: with GameStart and the roster messages sent only before a game, every
\* round but the most recent one is full after every step, and a step adds
\* at most one round: a ScoreEnter only when it fills the last empty cell of
\* the grid, a GameStart only when there is no round.
C18_OnlyRecentRoundIncomplete ==
    [][ /\ OlderRoundsFull(state')
        /\ Len(state'.scores) <= Len(state.scores) + 1
        /\ Len(state'.scores) > Len(state.scores)
              => \/ msg'.op = "ScoreEnter" /\ ~HasEmptyCell(Entered(state, msg'))
                 \/ msg'.op = "GameStart" /\ state.scores = <<>> ]_vars

\* After a ScoreEnter in the second round: the round is partly filled and
\* the first round is full.
C18_Witness ==
    /\ msg.op = "ScoreEnter" /\ ~panicked
    /\ Len(state.scores) = 2
    /\ \E c \in Cells(state) : c[1] = 0 /\ Cell(state, c).val = None
    /\ \E c \in Cells(state) : c[1] = 0 /\ Cell(state, c).val # None
    /\ OlderRoundsFull(state)

\* C19: in every reachable state the game is in progress exactly when there
\* is a round, and in progress the coordinate get_focused returns names an
\* existing cell.
C19_MacroState ==
    /\ state.is_in_progress <=> state.scores # <<>>
    /\ state.is_in_progress => get_focused(state) \in Cells(state)

====
